---- MODULE Spec2Model ----
(***************************************************************************)
(* Model of crates/llm-base/src/inference_session.rs: the inference        *)
(* session (token history, decoded history, KV cache, n_past, logits),     *)
(* its operations feed_prompt, rewind, infer_next_token, infer,            *)
(* perplexity, get_snapshot / to_owned / from_snapshot, and the callback   *)
(* adapters feed_prompt_callback and conversation_inference_callback.      *)
(*                                                                         *)
(* The model is a single thread of control (the session is Send, not       *)
(* Sync).  feed_prompt and infer are modelled step by step (pc and frame   *)
(* hold the position in the running call and its locals) so that every     *)
(* callback invocation and every sampler call is one nondeterministic      *)
(* step; the other operations are atomic.  The tokenizer is the Embedded   *)
(* (fixed token -> bytes) kind.                                            *)
(***************************************************************************)
EXTENDS Integers, Sequences, FiniteSets, TLC

VARIABLES
    \* ---- InferenceSession fields (lines 49-94) ----
    config,          \* InferenceSessionConfig
    memory_k,        \* bytes of the K cache tensor
    memory_v,        \* bytes of the V cache tensor
    n_past,          \* tokens fed into the model's working memory
    mem_per_token,   \* 0 until the first compute
    tokens,          \* Vec<TokenId>
    decoded_tokens,  \* Vec<u8>
    last_logits,     \* Vec<f32>, one entry per vocabulary item
    \* ---- control: the call in progress ----
    pc,              \* position in the running call, "idle" between calls
    frame,           \* locals of the running call
    call,            \* the last call started: operation and argument size
    result,          \* how the last call returned
    ret,             \* the value it returned
    trace,           \* what the running/last call did: evaluations, samples, callbacks
    calls,           \* number of calls the user has made on the session so far
    before,          \* history: the histories and n_past when the last call started
    \* ---- conversation_inference_callback closure (lines 947-980) ----
    stop_sequence,     \* captured stop sequence
    stop_sequence_buf, \* captured buffer
    conv_in,           \* all InferredToken increments passed so far
    conv_out,          \* all text delivered to the wrapped callback so far
    conv_fb            \* feedback returned for each increment so far

sessionVars == <<config, memory_k, memory_v, n_past, mem_per_token, tokens,
                 decoded_tokens, last_logits>>
ctlVars == <<pc, frame, call, result, ret, trace, calls, before>>
convVars == <<stop_sequence, stop_sequence_buf, conv_in, conv_out, conv_fb>>
vars == <<config, memory_k, memory_v, n_past, mem_per_token, tokens,
          decoded_tokens, last_logits, pc, frame, call,
          result, ret, trace, calls, before, stop_sequence, stop_sequence_buf, conv_in,
          conv_out, conv_fb>>

----------------------------------------------------------------------------
(* Bounds of the model *)

\* Model::context_size()
ContextSize == 3
\* longest prompt handed to feed_prompt / infer
MaxPrompt == 2
\* largest maximum_token_count of a request (besides None)
MaxTokenCount == 1
\* largest num handed to rewind
MaxRewind == 1
\* longest prompt handed to perplexity, in multiples of the context size
MaxPerplexityChunks == 1
\* number of calls the user makes on a session
MaxCalls == 2

----------------------------------------------------------------------------
(* The vocabulary: token ids and their raw bytes *)

\* Model::bot_token_id() = Some(BOT); perplexity's fallback id is the same
BOT == 1
\* Model::eot_token_id()
EOT == 2
\* a token that is complete ASCII text, two bytes
TokA == 3
\* a token that is the lead byte of a two-byte code point
TokB == 4
\* a token that is the continuation byte of a two-byte code point
TokC == 5

Vocab == {BOT, EOT, TokA, TokB, TokC}
\* the tokens a prompt tokenizes to (no text tokenizes to end-of-text, line 327)
PromptVocab == Vocab \ {EOT}
\* model.tokenizer().len()
NVocab == Cardinality(Vocab)

\* model.tokenizer().token(id): the raw bytes of a token
Token(id) ==
    CASE id = BOT  -> <<60>>
      [] id = EOT  -> <<62>>
      [] id = TokA -> <<97, 98>>
      [] id = TokB -> <<195>>
      [] id = TokC -> <<169>>

RECURSIVE ValidUtf8(_)
\* std::str::from_utf8(bytes).is_ok(), for one- and two-byte code points
ValidUtf8(bytes) ==
    IF bytes = <<>> THEN TRUE
    ELSE IF bytes[1] < 128 THEN ValidUtf8(Tail(bytes))
    ELSE IF bytes[1] >= 194 /\ bytes[1] <= 223
         THEN /\ Len(bytes) >= 2
              /\ bytes[2] >= 128 /\ bytes[2] <= 191
              /\ ValidUtf8(Tail(Tail(bytes)))
    ELSE FALSE

\* TokenUtf8Buffer::push: accumulate bytes, emit them once they are complete text
Utf8Push(buf, bytes) ==
    LET all == buf \o bytes IN
    IF ValidUtf8(all)
    THEN [out |-> <<all>>, buf |-> <<>>]
    ELSE [out |-> <<>>, buf |-> all]

----------------------------------------------------------------------------
(* Session configuration and KV cache sizing *)

\* ggml::type_sizef of the cache element types
TypeSize(t) == IF t = "Float16" THEN 2 ELSE 4

\* InferenceSessionConfig values the sessions are created with
Configs ==
    { [memory_k_type |-> "Float32", memory_v_type |-> "Float16", n_batch |-> 1, n_threads |-> 8],
      [memory_k_type |-> "Float16", memory_v_type |-> "Float32", n_batch |-> 2, n_threads |-> 8] }

\* n_embd * n_layer * context_size with one layer and one embedding dimension
NElements == ContextSize

Zeros(n) == [i \in 1..n |-> 0]

\* Tensor::nbytes of a cache tensor of the given element type
NBytes(t) == NElements * TypeSize(t)

\* InferenceSession::new: a fresh session
NewSession(cfg) ==
    [ config |-> cfg,
      memory_k |-> Zeros(NBytes(cfg.memory_k_type)),
      memory_v |-> Zeros(NBytes(cfg.memory_v_type)),
      n_past |-> 0,
      mem_per_token |-> 0,
      tokens |-> <<>>,
      decoded_tokens |-> <<>>,
      last_logits |-> Zeros(NVocab) ]

\* the session as a record
Session ==
    [ config |-> config, memory_k |-> memory_k, memory_v |-> memory_v,
      n_past |-> n_past, mem_per_token |-> mem_per_token, tokens |-> tokens,
      decoded_tokens |-> decoded_tokens, last_logits |-> last_logits ]

\* the session variables hold a fresh session
SetSessionInit(cfg) ==
    /\ config = cfg
    /\ memory_k = Zeros(NBytes(cfg.memory_k_type))
    /\ memory_v = Zeros(NBytes(cfg.memory_v_type))
    /\ n_past = 0
    /\ mem_per_token = 0
    /\ tokens = <<>>
    /\ decoded_tokens = <<>>
    /\ last_logits = Zeros(NVocab)

\* assignment of a session record to the session variables
SetSession(s) ==
    /\ config' = s.config
    /\ memory_k' = s.memory_k
    /\ memory_v' = s.memory_v
    /\ n_past' = s.n_past
    /\ mem_per_token' = s.mem_per_token
    /\ tokens' = s.tokens
    /\ decoded_tokens' = s.decoded_tokens
    /\ last_logits' = s.last_logits

----------------------------------------------------------------------------
(* Compute step *)

\* the cache bytes after the graph stored the batch at positions past+1 ..
\* (writes beyond the tensor are not represented)
CacheWrite(mem, size, past, batch) ==
    [i \in 1..Len(mem) |->
        LET pos == (i - 1) \div size IN
        IF pos >= past /\ pos < past + Len(batch)
        THEN batch[pos - past + 1]
        ELSE mem[i]]

\* the logits the evaluation leaves in last_logits
Logits(batch, past) ==
    [i \in 1..NVocab |-> IF i = batch[Len(batch)] THEN past + Len(batch) ELSE 0]

\* ctx0.used_mem() / self.n_embd of the first evaluation
UsedMemPerEmbd == 1

\* model.evaluate(session, input_tokens, ..) -> InferenceSession::compute
Compute(s, input_tokens) ==
    [s EXCEPT
        !.memory_k = CacheWrite(s.memory_k, TypeSize(s.config.memory_k_type), s.n_past, input_tokens),
        !.memory_v = CacheWrite(s.memory_v, TypeSize(s.config.memory_v_type), s.n_past, input_tokens),
        !.last_logits = Logits(input_tokens, s.n_past),
        !.mem_per_token = IF s.mem_per_token = 0 THEN UsedMemPerEmbd ELSE s.mem_per_token,
        !.n_past = s.n_past + Len(input_tokens)]

----------------------------------------------------------------------------
(* Trace entries of a call *)

EvEvaluate(batch) == [kind |-> "Evaluate", data |-> batch, fb |-> "-"]
EvSample(tk) == [kind |-> "Sample", data |-> <<tk>>, fb |-> "-"]
EvCallback(tag, text, fb) == [kind |-> tag, data |-> text, fb |-> fb]

Feedback == {"Continue", "Halt", "Err"}

\* locals of a running call.  The prompt is an input that nothing reads before
\* its chunk is evaluated, so the frame holds how many of its tokens are still
\* to come and the tokens themselves are drawn when their chunk is taken.
NoFrame ==
    [ caller |-> "-", prompt_rest |-> 0, batch |-> <<>>, buffer |-> <<>>,
      token_utf8_buf |-> <<>>, idx |-> 0, tokens_processed |-> 0,
      maximum_token_count |-> 0, prompt |-> 0, prompt_tokens |-> 0 ]

----------------------------------------------------------------------------
(* Starting and returning from a call *)

\* the user starts a call
Begin(op, arg) ==
    /\ pc = "idle"
    /\ calls < MaxCalls
    /\ calls' = calls + 1
    /\ call' = [op |-> op, arg |-> arg]
    /\ before' = IF before.on
                 THEN [on |-> TRUE, n_past |-> n_past, tokens |-> tokens,
                       decoded_tokens |-> decoded_tokens]
                 ELSE before

Min(a, b) == IF a < b THEN a ELSE b

\* the running call returns to the user
Return(res, value) ==
    /\ pc' = "idle"
    /\ result' = res
    /\ ret' = value
    /\ frame' = NoFrame

----------------------------------------------------------------------------
(* feed_prompt, lines 295-346 *)

\* (mutant) the context check is missing
ContextFullNever(past, n) == FALSE

\* (mutant) the context check lets a prompt fill the window exactly
ContextFullExclusive(past, n) == past + n > ContextSize

\* lines 307 and 384: the context window cannot take n more tokens
ContextFull(past, n) == past + n >= ContextSize

\* lines 302-309: the context check on entry, then the chunk loop starts
FeedPromptEnter(prompt_tokens, who, locals) ==
    IF ContextFull(n_past, prompt_tokens)
    THEN Return("ContextFull", <<>>)
    ELSE /\ pc' = "fp_batch"
         /\ frame' = [locals EXCEPT !.caller = who, !.prompt_rest = prompt_tokens,
                                    !.batch = <<>>, !.buffer = <<>>]
         /\ result' = "running"
         /\ ret' = <<>>

\* a user's call of feed_prompt with a prompt of prompt_tokens tokens and a
\* callback on the raw bytes
FeedPrompt(prompt_tokens) ==
    /\ Begin("feed_prompt", <<prompt_tokens>>)
    /\ trace' = <<>>
    /\ FeedPromptEnter(prompt_tokens, "user", NoFrame)
    /\ UNCHANGED <<sessionVars, convVars>>

\* lines 311-312 and 343-345: the next chunk is evaluated, or the loop is over
FpBatch ==
    /\ pc = "fp_batch"
    /\ IF frame.prompt_rest = 0
       THEN /\ IF frame.caller = "user"
               THEN Return("Ok", <<>>)
               ELSE \* back in infer, lines 468-476
                    /\ pc' = "inf_gen"
                    /\ frame' = [frame EXCEPT !.prompt_tokens = n_past,
                                              !.tokens_processed = 0,
                                              !.token_utf8_buf = <<>>]
                    /\ UNCHANGED <<result, ret>>
            /\ UNCHANGED <<sessionVars, trace>>
       ELSE LET n == Min(config.n_batch, frame.prompt_rest) IN
            \E batch \in [1..n -> PromptVocab] :
               /\ SetSession(Compute(Session, batch))
               /\ frame' = [frame EXCEPT !.batch = batch,
                                         !.prompt_rest = frame.prompt_rest - n]
               /\ pc' = "fp_token"
               /\ trace' = Append(trace, EvEvaluate(batch))
               /\ UNCHANGED <<result, ret>>
    /\ UNCHANGED <<call, calls, before, convVars>>

\* (mutant) the break leaves the chunk loop as well
AfterBreakNone(prompt_rest) == 0

\* line 333: the break leaves the token loop only; the chunks still to come stay
AfterBreak(prompt_rest) == prompt_rest

\* (mutant) an error of the callback only ends the token loop of the chunk
FpFeedbackSwallow(fb, tk, buffer2) ==
    CASE fb \in {"Err", "Halt"} ->
            /\ pc' = "fp_batch"
            /\ frame' = [frame EXCEPT !.batch = <<>>, !.buffer = buffer2]
            /\ UNCHANGED <<result, ret>>
            /\ UNCHANGED sessionVars
      [] fb = "Continue" ->
            /\ tokens' = Append(tokens, tk)
            /\ decoded_tokens' = decoded_tokens \o Token(tk)
            /\ frame' = [frame EXCEPT !.batch = Tail(frame.batch), !.buffer = buffer2]
            /\ pc' = IF Tail(frame.batch) = <<>> THEN "fp_batch" ELSE "fp_token"
            /\ UNCHANGED <<result, ret>>
            /\ UNCHANGED <<config, memory_k, memory_v, n_past, mem_per_token, last_logits>>

\* lines 329-340: what the callback's answer does to the token tk of the chunk
FpFeedback(fb, tk, buffer2) ==
    CASE fb = "Err" ->
            /\ Return("UserCallback", <<>>)
            /\ UNCHANGED sessionVars
      [] fb = "Halt" ->
            /\ pc' = "fp_batch"
            /\ frame' = [frame EXCEPT !.batch = <<>>, !.buffer = buffer2,
                                      !.prompt_rest = AfterBreak(frame.prompt_rest)]
            /\ UNCHANGED <<result, ret>>
            /\ UNCHANGED sessionVars
      [] fb = "Continue" ->
            /\ tokens' = Append(tokens, tk)
            /\ decoded_tokens' = decoded_tokens \o Token(tk)
            /\ frame' = [frame EXCEPT !.batch = Tail(frame.batch), !.buffer = buffer2]
            /\ pc' = IF Tail(frame.batch) = <<>> THEN "fp_batch" ELSE "fp_token"
            /\ UNCHANGED <<result, ret>>
            /\ UNCHANGED <<config, memory_k, memory_v, n_past, mem_per_token, last_logits>>

\* lines 313-341: one token of the evaluated chunk
FpToken ==
    /\ pc = "fp_token"
    /\ LET tk == Head(frame.batch)
           should_call_callback == tk # BOT
           token == Token(tk)
       IN IF ~should_call_callback
          THEN /\ FpFeedback("Continue", tk, frame.buffer)
               /\ UNCHANGED trace
          ELSE IF frame.caller = "user"
          THEN \E fb \in Feedback :
                  /\ trace' = Append(trace, EvCallback("Bytes", token, fb))
                  /\ FpFeedback(fb, tk, frame.buffer)
          ELSE \* feed_prompt_callback, lines 935-943
               LET pushed == Utf8Push(frame.buffer, token) IN
               IF pushed.out = <<>>
               THEN /\ FpFeedback("Continue", tk, pushed.buf)
                    /\ UNCHANGED trace
               ELSE \E fb \in Feedback :
                       /\ trace' = Append(trace, EvCallback("PromptToken", pushed.out[1], fb))
                       /\ FpFeedback(fb, tk, pushed.buf)
    /\ UNCHANGED <<call, calls, before, convVars>>

----------------------------------------------------------------------------
(* infer_next_token, lines 377-414 *)

\* (mutant) the end-of-text token is taken out of the history again
InferNextTokenResultRollback(s, next_token) ==
    LET s1 == Compute([s EXCEPT !.tokens = Append(s.tokens, next_token)], <<next_token>>) IN
    IF next_token = EOT
    THEN [session |-> [s1 EXCEPT !.tokens = s.tokens], result |-> "EndOfText", res |-> <<>>]
    ELSE [session |-> [s1 EXCEPT !.decoded_tokens = s1.decoded_tokens \o Token(next_token)],
          result |-> "Ok", res |-> Token(next_token)]

\* lines 388-413: the sampled token is recorded and evaluated, then decoded
InferNextTokenResult(s, next_token) ==
    LET s1 == Compute([s EXCEPT !.tokens = Append(s.tokens, next_token)], <<next_token>>) IN
    IF next_token = EOT
    THEN [session |-> s1, result |-> "EndOfText", res |-> <<>>]
    ELSE [session |-> [s1 EXCEPT !.decoded_tokens = s1.decoded_tokens \o Token(next_token)],
          result |-> "Ok", res |-> Token(next_token)]

\* a user's call of infer_next_token; the sampler may return any token
InferNextToken ==
    /\ Begin("infer_next_token", <<>>)
    /\ frame' = NoFrame
    /\ pc' = "idle"
    /\ IF ContextFull(n_past, 1)
       THEN /\ result' = "ContextFull"
            /\ ret' = <<>>
            /\ trace' = <<>>
            /\ UNCHANGED sessionVars
       ELSE \E next_token \in Vocab :
               LET r == InferNextTokenResult(Session, next_token) IN
               /\ SetSession(r.session)
               /\ result' = r.result
               /\ ret' = r.res
               /\ trace' = <<EvSample(next_token), EvEvaluate(<<next_token>>)>>
    /\ UNCHANGED <<convVars>>

----------------------------------------------------------------------------
(* rewind, lines 349-373 *)

RECURSIVE SumLen(_)
\* the sum of the raw byte lengths of the given tokens (lines 364-366)
SumLen(ids) ==
    IF ids = <<>> THEN 0 ELSE Len(Token(Head(ids))) + SumLen(Tail(ids))

\* (mutant) rewind accepts num = n_past
NotEnoughTokensExclusive(num, past) == num > past

\* line 354: more tokens are to be removed than rewind allows
NotEnoughTokens(num, past) == num >= past

\* (mutant) rewind also clears the logits of the last evaluation
RewindResultClearing(s, rewindable, num, checks) ==
    IF ~rewindable
    THEN [session |-> s, result |-> "UnsupportedArchitecture", ret |-> <<>>]
    ELSE IF NotEnoughTokens(num, s.n_past)
    THEN [session |-> s, result |-> "NotEnoughTokens", ret |-> <<>>]
    ELSE LET token_start == s.n_past - num IN
         IF token_start > Len(s.tokens)
         THEN \* Vec::drain panics: the range starts beyond the vector
              [session |-> s, result |-> "Panic", ret |-> <<>>]
         ELSE LET deleted_tokens == SubSeq(s.tokens, token_start + 1, Len(s.tokens))
                  s1 == [s EXCEPT !.tokens = SubSeq(s.tokens, 1, token_start)]
                  bytes == SumLen(deleted_tokens)
              IN IF bytes > Len(s.decoded_tokens)
                 THEN IF checks
                      THEN \* decoded_start -= .. panics on overflow
                           [session |-> s1, result |-> "Panic", ret |-> <<>>]
                      ELSE \* decoded_start wraps above the length: truncate keeps all
                           [session |-> [s1 EXCEPT !.n_past = s.n_past - num],
                            result |-> "Ok", ret |-> deleted_tokens]
                 ELSE [session |-> [s1 EXCEPT
                                      !.decoded_tokens = SubSeq(s.decoded_tokens, 1,
                                                                Len(s.decoded_tokens) - bytes),
                                      !.last_logits = Zeros(NVocab),
                                      !.n_past = s.n_past - num],
                       result |-> "Ok", ret |-> deleted_tokens]

\* rewind on session s; checks = the build traps integer overflow (debug) or wraps
RewindResult(s, rewindable, num, checks) ==
    IF ~rewindable
    THEN [session |-> s, result |-> "UnsupportedArchitecture", ret |-> <<>>]
    ELSE IF NotEnoughTokens(num, s.n_past)
    THEN [session |-> s, result |-> "NotEnoughTokens", ret |-> <<>>]
    ELSE LET token_start == s.n_past - num IN
         IF token_start > Len(s.tokens)
         THEN \* Vec::drain panics: the range starts beyond the vector
              [session |-> s, result |-> "Panic", ret |-> <<>>]
         ELSE LET deleted_tokens == SubSeq(s.tokens, token_start + 1, Len(s.tokens))
                  s1 == [s EXCEPT !.tokens = SubSeq(s.tokens, 1, token_start)]
                  bytes == SumLen(deleted_tokens)
              IN IF bytes > Len(s.decoded_tokens)
                 THEN IF checks
                      THEN \* decoded_start -= .. panics on overflow
                           [session |-> s1, result |-> "Panic", ret |-> <<>>]
                      ELSE \* decoded_start wraps above the length: truncate keeps all
                           [session |-> [s1 EXCEPT !.n_past = s.n_past - num],
                            result |-> "Ok", ret |-> deleted_tokens]
                 ELSE [session |-> [s1 EXCEPT
                                      !.decoded_tokens = SubSeq(s.decoded_tokens, 1,
                                                                Len(s.decoded_tokens) - bytes),
                                      !.n_past = s.n_past - num],
                       result |-> "Ok", ret |-> deleted_tokens]

\* a user's call of rewind, on a model with supports_rewind() = rewindable
Rewind(rewindable, num) ==
    /\ Begin("rewind", <<rewindable, num>>)
    /\ trace' = <<>>
    /\ frame' = NoFrame
    /\ \E checks \in BOOLEAN :
          LET r == RewindResult(Session, rewindable, num, checks) IN
          /\ SetSession(r.session)
          /\ result' = r.result
          /\ ret' = r.ret
          /\ pc' = IF r.result = "Panic" THEN "panicked" ELSE "idle"
    /\ UNCHANGED <<convVars>>

----------------------------------------------------------------------------
(* infer, lines 424-502 *)

\* request.maximum_token_count.unwrap_or(usize::MAX): None is a count no loop reaches
UsizeMax == 2147483647

MaximumTokenCounts == (0..MaxTokenCount) \cup {UsizeMax}

\* lines 498-501: the statistics infer returns
Stats(prompt_tokens, predict_tokens) ==
    [prompt_tokens |-> prompt_tokens, predict_tokens |-> predict_tokens]

\* (mutant) the stored tokens are played back whatever the request says
InferAlwaysPlayback(play_back_previous_tokens, prompt, maximum_token_count) ==
    /\ Begin("infer", <<play_back_previous_tokens, prompt, maximum_token_count>>)
    /\ trace' = <<>>
    /\ result' = "running"
    /\ ret' = <<>>
    /\ frame' = [NoFrame EXCEPT !.caller = "infer", !.prompt = prompt, !.idx = 1,
                                !.maximum_token_count = maximum_token_count]
    /\ pc' = "inf_playback"
    /\ UNCHANGED <<sessionVars, convVars>>

\* lines 432-447: a user's call of infer
Infer(play_back_previous_tokens, prompt, maximum_token_count) ==
    /\ Begin("infer", <<play_back_previous_tokens, prompt, maximum_token_count>>)
    /\ trace' = <<>>
    /\ result' = "running"
    /\ ret' = <<>>
    /\ frame' = [NoFrame EXCEPT !.caller = "infer", !.prompt = prompt, !.idx = 1,
                                !.maximum_token_count = maximum_token_count]
    /\ pc' = IF play_back_previous_tokens THEN "inf_playback" ELSE "inf_prompt"
    /\ UNCHANGED <<sessionVars, convVars>>

\* lines 436-446: one stored token is played back
InfPlayback ==
    /\ pc = "inf_playback"
    /\ IF frame.idx > Len(tokens)
       THEN /\ pc' = "inf_prompt"
            /\ frame' = [frame EXCEPT !.token_utf8_buf = <<>>]
            /\ UNCHANGED <<result, ret, trace>>
       ELSE LET pushed == Utf8Push(frame.token_utf8_buf, Token(tokens[frame.idx])) IN
            IF pushed.out = <<>>
            THEN /\ frame' = [frame EXCEPT !.token_utf8_buf = pushed.buf, !.idx = frame.idx + 1]
                 /\ UNCHANGED <<pc, result, ret, trace>>
            ELSE \E fb \in Feedback :
                    /\ trace' = Append(trace, EvCallback("SnapshotToken", pushed.out[1], fb))
                    /\ IF fb = "Err"
                       THEN Return("UserCallback", <<>>)
                       ELSE /\ frame' = [frame EXCEPT !.token_utf8_buf = pushed.buf,
                                                      !.idx = frame.idx + 1]
                            /\ UNCHANGED <<pc, result, ret>>
    /\ UNCHANGED <<sessionVars, call, calls, before, convVars>>

\* lines 460-469: the prompt is fed unless it is empty
InfPrompt ==
    /\ pc = "inf_prompt"
    /\ IF frame.prompt # 0
       THEN FeedPromptEnter(frame.prompt, "infer", frame)
       ELSE /\ pc' = "inf_gen"
            /\ frame' = [frame EXCEPT !.prompt_tokens = n_past, !.tokens_processed = 0,
                                      !.token_utf8_buf = <<>>]
            /\ UNCHANGED <<result, ret>>
    /\ UNCHANGED <<sessionVars, call, calls, before, trace, convVars>>

\* (mutant) the generation loop runs one round too many
LoopTestInclusive(tokens_processed, maximum_token_count) ==
    tokens_processed <= maximum_token_count

\* line 477: the test of the generation loop
LoopTest(tokens_processed, maximum_token_count) ==
    tokens_processed < maximum_token_count

\* (mutant) every failure of infer_next_token ends the loop normally
EndsLoopAlways(res) == TRUE

\* lines 481-482: the failure of infer_next_token that ends the loop normally
EndsLoop(res) == res = "EndOfText"

\* (mutant) a token is counted only when its text was passed on
TokensProcessedIfText(tokens_processed, text) ==
    IF text = <<>> THEN tokens_processed ELSE tokens_processed + 1

\* line 496: the round is counted, whether or not text was passed on
TokensProcessed(tokens_processed, text) == tokens_processed + 1

\* lines 477-501: the loop test and one round of the generation loop
InfGen ==
    /\ pc = "inf_gen"
    /\ IF ~LoopTest(frame.tokens_processed, frame.maximum_token_count)
       THEN /\ Return("Ok", Stats(frame.prompt_tokens, n_past))
            /\ UNCHANGED <<sessionVars, trace>>
       ELSE IF ContextFull(n_past, 1)
       THEN /\ IF EndsLoop("ContextFull")
               THEN Return("Ok", Stats(frame.prompt_tokens, n_past))
               ELSE Return("ContextFull", <<>>)
            /\ UNCHANGED <<sessionVars, trace>>
       ELSE \E next_token \in Vocab :
            LET r == InferNextTokenResult(Session, next_token)
                tr == trace \o <<EvSample(next_token), EvEvaluate(<<next_token>>)>>
                pushed == Utf8Push(frame.token_utf8_buf, r.res)
            IN /\ SetSession(r.session)
               /\ IF r.result # "Ok"
                  THEN /\ trace' = tr
                       /\ IF EndsLoop(r.result)
                          THEN Return("Ok", Stats(frame.prompt_tokens, r.session.n_past))
                          ELSE Return(r.result, <<>>)
                  ELSE IF pushed.out = <<>>
                  THEN /\ trace' = tr
                       /\ frame' = [frame EXCEPT !.token_utf8_buf = pushed.buf,
                                                 !.tokens_processed =
                                                    TokensProcessed(frame.tokens_processed, pushed.out)]
                       /\ UNCHANGED <<pc, result, ret>>
                  ELSE \E fb \in Feedback :
                       /\ trace' = Append(tr, EvCallback("InferredToken", pushed.out[1], fb))
                       /\ CASE fb = "Err" -> Return("UserCallback", <<>>)
                            [] fb = "Halt" ->
                                  Return("Ok", Stats(frame.prompt_tokens, r.session.n_past))
                            [] fb = "Continue" ->
                                  /\ frame' = [frame EXCEPT
                                                 !.token_utf8_buf = pushed.buf,
                                                 !.tokens_processed =
                                                    TokensProcessed(frame.tokens_processed, pushed.out)]
                                  /\ UNCHANGED <<pc, result, ret>>
    /\ UNCHANGED <<call, calls, before, convVars>>

----------------------------------------------------------------------------
(* perplexity, lines 509-579 *)

RECURSIVE PerplexityBatches(_, _, _, _)
\* lines 537-565: the sub-batches j, j+1, .. of the chunk starting at start
PerplexityBatches(st, toks, start, j) ==
    LET n_batch == st.session.config.n_batch
        num_batches == (ContextSize + n_batch - 1) \div n_batch
        end == start + ContextSize
        batch_start == start + j * n_batch
        batch_size == Min(end - batch_start, n_batch)
        replaced == IF j = 0 THEN [toks EXCEPT ![batch_start + 1] = BOT] ELSE toks
        batch == SubSeq(replaced, batch_start + 1, batch_start + batch_size)
    IN IF j >= num_batches THEN st
       ELSE PerplexityBatches([session |-> Compute(st.session, batch),
                               trace |-> Append(st.trace, EvEvaluate(batch))],
                              toks, start, j + 1)

RECURSIVE PerplexityChunksEarly(_, _, _)
\* (mutant) the callback is invoked before its chunk is evaluated
PerplexityChunksEarly(st, toks, i) ==
    IF i >= Len(toks) \div ContextSize THEN st
    ELSE LET told == [session |-> st.session,
                      trace |-> Append(st.trace, EvCallback("Perplexity", <<i>>, "-"))]
         IN PerplexityChunksEarly(PerplexityBatches(told, toks, i * ContextSize, 0), toks, i + 1)

RECURSIVE PerplexityChunks(_, _, _)
\* lines 529-576: the chunks i, i+1, .., each followed by the callback
PerplexityChunks(st, toks, i) ==
    IF i >= Len(toks) \div ContextSize THEN st
    ELSE LET after == PerplexityBatches(st, toks, i * ContextSize, 0) IN
         PerplexityChunks([session |-> after.session,
                           trace |-> Append(after.trace, EvCallback("Perplexity", <<i>>, "-"))],
                          toks, i + 1)

\* the tokenized prompts handed to perplexity: a bos marker, then n - 1 tokens t
PerplexityPrompt(n, t) == [i \in 1..n |-> IF i = 1 THEN BOT ELSE t]

\* (mutant) perplexity puts n_past back to where it started
PerplexityResetting(toks) ==
    /\ Begin("perplexity", <<Len(toks)>>)
    /\ LET st == PerplexityChunks([session |-> Session, trace |-> <<>>], toks, 0) IN
       /\ SetSession([st.session EXCEPT !.n_past = n_past])
       /\ trace' = st.trace
    /\ Return("Ok", <<>>)
    /\ UNCHANGED <<convVars>>

\* a user's call of perplexity
Perplexity(toks) ==
    /\ Begin("perplexity", <<Len(toks)>>)
    /\ LET st == PerplexityChunks([session |-> Session, trace |-> <<>>], toks, 0) IN
       /\ SetSession(st.session)
       /\ trace' = st.trace
    /\ Return("Ok", <<>>)
    /\ UNCHANGED <<convVars>>

----------------------------------------------------------------------------
(* Snapshots, lines 589-636 and 744-758 *)

\* get_snapshot: the borrowing view of the session
GetSnapshot(s) ==
    [ npast |-> s.n_past, config |-> s.config, tokens |-> s.tokens,
      logits |-> s.last_logits, memory_k |-> s.memory_k, memory_v |-> s.memory_v ]

\* InferenceSnapshotRef::to_owned
ToOwned(ref) ==
    [ npast |-> ref.npast, config |-> ref.config, tokens |-> ref.tokens,
      last_logits |-> ref.logits, memory_k |-> ref.memory_k, memory_v |-> ref.memory_v ]

\* (mutant) the summed sizes of the two caches are compared
SizeMismatchSummed(session, snapshot) ==
    Len(session.memory_k) + Len(session.memory_v)
       # Len(snapshot.memory_k) + Len(snapshot.memory_v)

\* lines 614-615: a cache of the snapshot has another size than the session's
SizeMismatch(session, snapshot) ==
    \/ Len(session.memory_k) # Len(snapshot.memory_k)
    \/ Len(session.memory_v) # Len(snapshot.memory_v)

\* (mutant) the V cache is not written back
RestoreWithoutV(session, snapshot) ==
    [session EXCEPT !.memory_k = snapshot.memory_k,
                    !.n_past = snapshot.npast,
                    !.tokens = snapshot.tokens,
                    !.last_logits = snapshot.last_logits]

\* lines 626-633: the snapshot is written into the session
Restore(session, snapshot) ==
    [session EXCEPT !.memory_k = snapshot.memory_k,
                    !.memory_v = snapshot.memory_v,
                    !.n_past = snapshot.npast,
                    !.tokens = snapshot.tokens,
                    !.last_logits = snapshot.last_logits]

\* from_snapshot: a session started with the snapshot's config, then overwritten
FromSnapshotResult(snapshot) ==
    LET session == NewSession(snapshot.config) IN
    IF SizeMismatch(session, snapshot)
    THEN [ok |-> FALSE, result |-> "MemorySizeMismatch", session |-> session]
    ELSE [ok |-> TRUE, result |-> "Ok", session |-> Restore(session, snapshot)]

\* deserialized snapshots of an unused session, written by any model and config
StoredSnapshots ==
    { [ npast |-> 0, config |-> c, tokens |-> <<>>, last_logits |-> Zeros(NVocab),
        memory_k |-> Zeros(nk), memory_v |-> Zeros(nv) ] :
      c \in Configs, nk \in {NBytes("Float16"), NBytes("Float32")},
      nv \in {NBytes("Float16"), NBytes("Float32")} }

\* a user's call of from_snapshot; on success the restored session is the one used from now on
FromSnapshot(snapshot) ==
    /\ Begin("from_snapshot", <<snapshot>>)
    /\ trace' = <<>>
    /\ LET r == FromSnapshotResult(snapshot) IN
       /\ IF r.ok THEN SetSession(r.session) ELSE UNCHANGED sessionVars
       /\ Return(r.result, <<>>)
    /\ UNCHANGED <<convVars>>

----------------------------------------------------------------------------
(* conversation_inference_callback, lines 947-980 *)

\* number of responses passed to one callback
MaxResponses == 2
\* longest text of one InferredToken response
MaxIncrement == 2

\* the characters of the texts
Chars == {"E", "N", "D", "!"}

\* the stop sequences the callback is created with
StopSequences == { <<"E", "N", "D">>, <<"E", "E", "N">> }

\* str::starts_with
StartsWith(str, prefix) ==
    /\ Len(prefix) <= Len(str)
    /\ SubSeq(str, 1, Len(prefix)) = prefix

\* (mutant) only the new increment is passed on, the buffered text is dropped
ConvInferredTokenDropping(token) ==
    LET buf == stop_sequence_buf \o token IN
    IF StartsWith(buf, stop_sequence)
    THEN [buf |-> <<>>, out |-> <<>>, fb |-> "Halt"]
    ELSE IF StartsWith(stop_sequence, buf)
    THEN [buf |-> buf, out |-> <<>>, fb |-> "Continue"]
    ELSE [buf |-> <<>>, out |-> <<token>>, fb |-> "Continue"]

\* (mutant) a prefix of the stop sequence is passed on at once
ConvInferredTokenEager(token) ==
    LET buf == stop_sequence_buf \o token IN
    IF StartsWith(buf, stop_sequence)
    THEN [buf |-> <<>>, out |-> <<>>, fb |-> "Halt"]
    ELSE IF StartsWith(stop_sequence, buf)
    THEN [buf |-> buf, out |-> <<buf>>, fb |-> "Continue"]
    ELSE [buf |-> <<>>, out |-> <<buf>>, fb |-> "Continue"]

\* lines 953-976: the callback on InferredToken(token)
ConvInferredToken(token) ==
    LET buf == stop_sequence_buf \o token IN
    IF StartsWith(buf, stop_sequence)
    THEN [buf |-> <<>>, out |-> <<>>, fb |-> "Halt"]
    ELSE IF StartsWith(stop_sequence, buf)
    THEN [buf |-> buf, out |-> <<>>, fb |-> "Continue"]
    ELSE [buf |-> <<>>, out |-> <<buf>>, fb |-> "Continue"]

\* lines 952-979: the callback is invoked with a response
ConversationInferenceCallback(kind, text) ==
    /\ Len(conv_in) < MaxResponses
    /\ conv_in' = Append(conv_in, [kind |-> kind, text |-> text])
    /\ LET r == IF kind = "InferredToken" THEN ConvInferredToken(text)
                ELSE IF kind = "EotToken"
                THEN [buf |-> stop_sequence_buf, out |-> <<>>, fb |-> "Halt"]
                ELSE [buf |-> stop_sequence_buf, out |-> <<>>, fb |-> "Continue"]
       IN /\ stop_sequence_buf' = r.buf
          /\ conv_out' = conv_out \o r.out
          /\ conv_fb' = Append(conv_fb, r.fb)
    /\ UNCHANGED <<sessionVars, ctlVars, stop_sequence>>

\* the texts of the InferredToken responses
Increments == UNION { [1..k -> Chars] : k \in 1..MaxIncrement }

InitConv ==
    /\ SetSessionInit(CHOOSE cfg \in Configs : cfg.n_batch = 1)
    /\ pc = "idle"
    /\ frame = NoFrame
    /\ call = [op |-> "new", arg |-> <<>>]
    /\ result = "Ok"
    /\ ret = <<>>
    /\ trace = <<>>
    /\ calls = 0
    /\ before = [on |-> FALSE]
    /\ stop_sequence \in StopSequences
    /\ stop_sequence_buf = <<>>
    /\ conv_in = <<>>
    /\ conv_out = <<>>
    /\ conv_fb = <<>>

NextConv ==
    \/ \E token \in Increments : ConversationInferenceCallback("InferredToken", token)
    \/ ConversationInferenceCallback("EotToken", <<>>)
    \/ \E kind \in {"SnapshotToken", "PromptToken"} :
          ConversationInferenceCallback(kind, <<"E">>)

SpecConv == InitConv /\ [][NextConv]_vars

----------------------------------------------------------------------------
(* The session and its user *)

\* the numbers of tokens of the prompts
PromptLengths == 0..MaxPrompt

\* the lengths of the prompts handed to perplexity: around whole chunks
PerplexityLengths ==
    { k * ContextSize + d : k \in 0..MaxPerplexityChunks, d \in {0, 1} } \ {0}

Init ==
    /\ \E cfg \in Configs : SetSessionInit(cfg)
    /\ pc = "idle"
    /\ frame = NoFrame
    /\ call = [op |-> "new", arg |-> <<>>]
    /\ result = "Ok"
    /\ ret = <<>>
    /\ trace = <<>>
    /\ calls = 0
    /\ before = [on |-> FALSE]
    /\ stop_sequence = <<>>
    /\ stop_sequence_buf = <<>>
    /\ conv_in = <<>>
    /\ conv_out = <<>>
    /\ conv_fb = <<>>

Next ==
    \/ \E prompt_tokens \in PromptLengths : FeedPrompt(prompt_tokens)
    \/ FpBatch
    \/ FpToken
    \/ InferNextToken
    \/ \E rewindable \in BOOLEAN, num \in 0..MaxRewind : Rewind(rewindable, num)
    \/ \E pb \in BOOLEAN, prompt \in PromptLengths, m \in MaximumTokenCounts :
          Infer(pb, prompt, m)
    \/ InfPlayback
    \/ InfPrompt
    \/ InfGen
    \/ \E n \in PerplexityLengths : Perplexity(PerplexityPrompt(n, TokA))
    \/ FromSnapshot(ToOwned(GetSnapshot(Session)))
    \/ \E snapshot \in StoredSnapshots : FromSnapshot(snapshot)

Spec == Init /\ [][Next]_vars

----------------------------------------------------------------------------
(* A session that is only fed and rewound *)

\* a fresh session whose user makes one call more than MaxCalls, and the
\* history of what the session held when each call started is kept
InitFed ==
    /\ \E cfg \in Configs : SetSessionInit(cfg)
    /\ pc = "idle"
    /\ frame = NoFrame
    /\ call = [op |-> "new", arg |-> <<>>]
    /\ result = "Ok"
    /\ ret = <<>>
    /\ trace = <<>>
    /\ calls = -1
    /\ before = [on |-> TRUE, n_past |-> 0, tokens |-> <<>>, decoded_tokens |-> <<>>]
    /\ stop_sequence = <<>>
    /\ stop_sequence_buf = <<>>
    /\ conv_in = <<>>
    /\ conv_out = <<>>
    /\ conv_fb = <<>>

NextFed ==
    \/ \E prompt_tokens \in PromptLengths : FeedPrompt(prompt_tokens)
    \/ FpBatch
    \/ FpToken
    \/ \E rewindable \in BOOLEAN, num \in 0..MaxRewind : Rewind(rewindable, num)

SpecFed == InitFed /\ [][NextFed]_vars

----------------------------------------------------------------------------
(* Properties *)

\* this step is the user starting the call op
IsCall(op) == pc = "idle" /\ calls' = calls + 1 /\ call'.op = op

\* the session between two calls, the last of which returned successfully
Returned(op) == pc = "idle" /\ call.op = op /\ result = "Ok"

\* the entries of a trace that are callback invocations
IsCallback(e) == e.kind \in {"Bytes", "SnapshotToken", "PromptToken", "InferredToken"}

\* number of entries of the trace of the given kind
CountKind(tr, kind) == Cardinality({i \in 1..Len(tr) : tr[i].kind = kind})

\* C1: after any successfully returning operation the length of the token
\* history equals n_past.
C1_TokensLenIsNPast ==
    (pc = "idle" /\ result = "Ok") => Len(tokens) = n_past

\* C2: on a model that supports rewind, rewind(k) with 0 <= k < n_past succeeds,
\* returns the last k token ids, leaves the former prefix, decreases n_past by k
\* and shortens the decoded history by the byte lengths of the removed tokens.
C2_RewindRemovesLastK ==
    [][(IsCall("rewind") /\ call'.arg[1] /\ call'.arg[2] < n_past) =>
         LET k == call'.arg[2] IN
         /\ result' = "Ok"
         /\ k <= Len(tokens)
         /\ ret' = SubSeq(tokens, Len(tokens) - k + 1, Len(tokens))
         /\ tokens' = SubSeq(tokens, 1, Len(tokens) - k)
         /\ n_past' = n_past - k
         /\ Len(decoded_tokens') = Len(decoded_tokens) - SumLen(ret')]_vars

\* C3: feed_prompt entered (by the user or by infer) with n_past + token count >=
\* context_size returns ContextFull, evaluates nothing, invokes no callback and
\* leaves the session unchanged.
C3_FeedPromptContextFull ==
    [][/\ (IsCall("feed_prompt") /\ n_past + call'.arg[1] >= ContextSize) =>
            /\ pc' = "idle" /\ result' = "ContextFull"
            /\ trace' = <<>>
            /\ UNCHANGED sessionVars
       /\ (pc = "inf_prompt" /\ frame.prompt # 0 /\ n_past + frame.prompt >= ContextSize) =>
            /\ pc' = "idle" /\ result' = "ContextFull"
            /\ trace' = trace
            /\ UNCHANGED sessionVars]_vars

\* C3 witness: feed_prompt was refused on a session that holds tokens
C3_Witness ==
    /\ pc = "idle" /\ call.op = "feed_prompt" /\ result = "ContextFull"
    /\ tokens # <<>> /\ n_past + call.arg[1] >= ContextSize

\* C4: from_snapshot of the owned snapshot of the session succeeds and yields a
\* session with the same n_past, tokens, last logits and K and V cache bytes.
C4_SnapshotRoundTrip ==
    [][(IsCall("from_snapshot") /\ call'.arg[1] = ToOwned(GetSnapshot(Session))) =>
         /\ result' = "Ok"
         /\ n_past' = n_past
         /\ tokens' = tokens
         /\ last_logits' = last_logits
         /\ memory_k' = memory_k
         /\ memory_v' = memory_v]_vars

\* C4 witness: a session that holds tokens and a written cache was restored
C4_Witness ==
    /\ Returned("from_snapshot")
    /\ tokens # <<>> /\ n_past > 0
    /\ memory_v # Zeros(Len(memory_v))
    /\ call.arg[1].tokens = tokens

\* C5: the session restored from the owned snapshot of a session carries its
\* entire state, so that decoded_tokens(), rewind, infer_next_token and
\* feed_prompt give the same results on both.
C5_RestoredStateIsEntire ==
    [][(IsCall("from_snapshot") /\ call'.arg[1] = ToOwned(GetSnapshot(Session))
          /\ result' = "Ok") =>
         /\ n_past' = n_past
         /\ tokens' = tokens
         /\ decoded_tokens' = decoded_tokens
         /\ last_logits' = last_logits
         /\ memory_k' = memory_k
         /\ memory_v' = memory_v
         /\ config' = config]_vars

\* C6: from_snapshot returns MemorySizeMismatch exactly when the K length or the
\* V length of the snapshot differs from that of a fresh session (each compared
\* on its own); then no session is produced, otherwise it succeeds.
C6_MemorySizeMismatch ==
    [][IsCall("from_snapshot") =>
         LET snapshot == call'.arg[1]
             mismatch == \/ Len(snapshot.memory_k) # NBytes(snapshot.config.memory_k_type)
                         \/ Len(snapshot.memory_v) # NBytes(snapshot.config.memory_v_type)
         IN /\ mismatch => (result' = "MemorySizeMismatch" /\ UNCHANGED sessionVars)
            /\ ~mismatch => (result' = "Ok" /\ config' = snapshot.config
                               /\ n_past' = snapshot.npast)]_vars

\* C6 witness: a snapshot was refused whose K and V lengths add up to the size
\* of a fresh session's caches
C6_Witness ==
    /\ pc = "idle" /\ call.op = "from_snapshot" /\ result = "MemorySizeMismatch"
    /\ LET snapshot == call.arg[1] IN
       Len(snapshot.memory_k) + Len(snapshot.memory_v)
          = NBytes(snapshot.config.memory_k_type) + NBytes(snapshot.config.memory_v_type)

\* C7: rewind fails UnsupportedArchitecture on a model without rewind support
\* (whatever num), otherwise NotEnoughTokens when num >= n_past; a failed rewind
\* leaves the session unchanged and no rewind leads to n_past = 0.
C7_RewindFailures ==
    [][IsCall("rewind") =>
         LET rewindable == call'.arg[1]
             num == call'.arg[2]
         IN /\ ~rewindable => result' = "UnsupportedArchitecture"
            /\ (rewindable /\ num >= n_past) => result' = "NotEnoughTokens"
            /\ result' \in {"UnsupportedArchitecture", "NotEnoughTokens"} =>
                  UNCHANGED sessionVars
            /\ result' = "Ok" => n_past' > 0]_vars

\* C7 witness: rewind of all the tokens of a session was refused
C7_Witness ==
    /\ pc = "idle" /\ call.op = "rewind" /\ result = "NotEnoughTokens"
    /\ call.arg[2] = n_past /\ n_past > 0 /\ tokens # <<>>

\* C8: in every reachable state 0 <= n_past <= context_size.
C8_NPastWithinContext ==
    n_past >= 0 /\ n_past <= ContextSize

\* the callbacks of the trace all answered Continue
AllContinue(tr) == \A i \in 1..Len(tr) : IsCallback(tr[i]) => tr[i].fb = "Continue"

\* the sampled tokens of the trace are complete text and not end-of-text
SamplesComplete(tr) ==
    \A i \in 1..Len(tr) :
       tr[i].kind = "Sample" => (tr[i].data[1] # EOT /\ ValidUtf8(Token(tr[i].data[1])))

\* C9: infer with maximum_token_count = m, whose prompt fits and leaves room for
\* m more tokens, with no end-of-text sampled, only complete-text tokens and a
\* callback that always continues, returns Ok after exactly m InferredToken
\* callbacks with n_past = (n_past after the prompt) + m.
C9_InferGeneratesM ==
    [][(/\ pc = "inf_gen" /\ pc' = "idle"
        /\ frame.maximum_token_count # UsizeMax
        /\ frame.prompt_tokens + frame.maximum_token_count < ContextSize
        /\ AllContinue(trace') /\ SamplesComplete(trace')) =>
         /\ result' = "Ok"
         /\ CountKind(trace', "InferredToken") = frame.maximum_token_count
         /\ n_past' = frame.prompt_tokens + frame.maximum_token_count
         /\ ret'.prompt_tokens = frame.prompt_tokens]_vars

\* C9 witness: infer fed a prompt and then generated m >= 1 tokens
C9_Witness ==
    /\ Returned("infer")
    /\ call.arg[2] >= 1 /\ call.arg[3] >= 1 /\ call.arg[3] # UsizeMax
    /\ AllContinue(trace) /\ SamplesComplete(trace)
    /\ CountKind(trace, "PromptToken") >= 1
    /\ CountKind(trace, "InferredToken") = call.arg[3]
    /\ n_past = ret.prompt_tokens + call.arg[3]
    /\ n_past < ContextSize

RECURSIVE Concat(_)
\* the concatenation of a sequence of texts
Concat(texts) == IF texts = <<>> THEN <<>> ELSE Head(texts) \o Concat(Tail(texts))

\* the text contains the pattern
Contains(text, pattern) ==
    \E i \in 0..(Len(text) - Len(pattern)) : SubSeq(text, i + 1, i + Len(pattern)) = pattern

\* the texts of the first k responses, those of InferredToken responses only
InferredTexts(k) ==
    [i \in 1..k |-> IF conv_in[i].kind = "InferredToken" THEN conv_in[i].text ELSE <<>>]

\* C10: when the concatenation of the InferredToken increments contains the stop
\* sequence, the callback has returned Halt no later than on the increment that
\* completes its first occurrence.
C10_HaltsOnStopSequence ==
    \A k \in 1..Len(conv_in) :
       Contains(Concat(InferredTexts(k)), stop_sequence) =>
          \E j \in 1..k : conv_fb[j] = "Halt"

\* a is a prefix of b and shorter than b
ProperPrefix(a, b) == StartsWith(b, a) /\ a # b

\* C11: while the accumulated inferred text is a proper prefix of the stop
\* sequence the wrapped callback receives no text and Continue is returned; when
\* the accumulated text then starts with the stop sequence, Halt is returned and
\* the wrapped callback is still not invoked.
C11_StopSequenceBuffering ==
    LET k == Len(conv_in)
        all == Concat(InferredTexts(k))
    IN /\ ProperPrefix(all, stop_sequence) =>
            /\ conv_out = <<>>
            /\ \A j \in 1..k : conv_in[j].kind = "InferredToken" => conv_fb[j] = "Continue"
       /\ (/\ k >= 1
           /\ conv_in[k].kind = "InferredToken"
           /\ ProperPrefix(Concat(InferredTexts(k - 1)), stop_sequence)
           /\ StartsWith(all, stop_sequence)) =>
            /\ conv_fb[k] = "Halt"
            /\ conv_out = <<>>

\* C11 witness: stop sequence "END", increments "EN" then "D!"
C11_Witness ==
    /\ stop_sequence = <<"E", "N", "D">>
    /\ conv_in = << [kind |-> "InferredToken", text |-> <<"E", "N">>],
                    [kind |-> "InferredToken", text |-> <<"D", "!">>] >>
    /\ conv_fb = <<"Continue", "Halt">>
    /\ conv_out = <<>>

\* a callback of the trace answered Halt
Halted(tr) == \E i \in 1..Len(tr) : IsCallback(tr[i]) /\ tr[i].fb = "Halt"

\* C12: once the callback passed to infer has returned Halt for any response,
\* infer evaluates the model no more and never invokes the callback again
\* during that call.
C12_HaltHaltsInference ==
    [][(call.op = "infer" /\ pc # "idle" /\ Halted(trace)) => trace' = trace]_vars

\* the step samples the end-of-text token
SamplesEot ==
    \E i \in (Len(trace) + 1)..Len(trace') :
       trace'[i].kind = "Sample" /\ trace'[i].data = <<EOT>>

\* C13: in infer's generation loop an EndOfText failure of infer_next_token ends
\* the loop and infer returns Ok with statistics, whereas ContextFull (the window
\* runs out during generation) is returned as the error of infer.
C13_EndOfTextEndsLoop ==
    [][(pc = "inf_gen" /\ frame.tokens_processed < frame.maximum_token_count) =>
         /\ n_past + 1 >= ContextSize =>
               /\ pc' = "idle" /\ result' = "ContextFull"
               /\ UNCHANGED sessionVars
         /\ (n_past + 1 < ContextSize /\ SamplesEot) =>
               /\ pc' = "idle" /\ result' = "Ok"
               /\ DOMAIN ret' = {"prompt_tokens", "predict_tokens"}]_vars

\* C13 witness: infer generated tokens until the window ran out
C13_Witness ==
    /\ pc = "idle" /\ call.op = "infer" /\ result = "ContextFull"
    /\ CountKind(trace, "Sample") >= 1
    /\ n_past + 1 = ContextSize

\* C14: infer_next_token called with n_past + 1 >= context_size returns
\* ContextFull before sampling and leaves n_past, the token history, the decoded
\* history and last_logits unchanged.
C14_InferNextTokenContextFull ==
    [][(IsCall("infer_next_token") /\ n_past + 1 >= ContextSize) =>
         /\ pc' = "idle" /\ result' = "ContextFull"
         /\ CountKind(trace', "Sample") = 0
         /\ UNCHANGED <<n_past, tokens, decoded_tokens, last_logits>>]_vars

\* C14 witness: infer_next_token was refused on a session one short of full
C14_Witness ==
    /\ pc = "idle" /\ call.op = "infer_next_token" /\ result = "ContextFull"
    /\ tokens # <<>> /\ n_past + 1 = ContextSize

\* C15: on a model that supports rewind, from any state with n_past >= 1, a
\* feed_prompt of k tokens that succeeds (whatever the callback answers)
\* followed by rewind(k) restores n_past, the token history and the decoded
\* history to their values before the feed_prompt.
C15_RewindUndoesFeedPrompt ==
    [][(/\ IsCall("rewind") /\ call'.arg[1]
        /\ call.op = "feed_prompt" /\ result = "Ok"
        /\ call'.arg[2] = call.arg[1]
        /\ before.on /\ before.n_past >= 1) =>
         /\ result' = "Ok"
         /\ n_past' = before.n_past
         /\ tokens' = before.tokens
         /\ decoded_tokens' = before.decoded_tokens]_vars

\* C16: when the end-of-text token is sampled during infer, the callback is
\* invoked with InferenceResponse::EotToken.
C16_EotTokenDelivered ==
    [][(pc = "inf_gen" /\ SamplesEot) =>
         \E i \in (Len(trace) + 1)..Len(trace') : trace'[i].kind = "EotToken"]_vars

\* C17: in the statistics infer returns, prompt_tokens is the number of tokens
\* of the prompt fed by the call and predict_tokens the number of tokens
\* sampled in its generation loop.
C17_StatsCountTokens ==
    Returned("infer") =>
       /\ ret.prompt_tokens = call.arg[2]
       /\ ret.predict_tokens = CountKind(trace, "Sample")

\* C18: infer with maximum_token_count = Some(m) samples at most m tokens: at
\* most m samples and m InferredToken callbacks occur and n_past grows by at
\* most m after the prompt, whatever the callback answers and whether or not
\* the sampled tokens are complete text; with m = 0 nothing is sampled.
C18_AtMostMaximumTokens ==
    (call.op = "infer" /\ call.arg[3] # UsizeMax) =>
       LET m == call.arg[3] IN
       /\ CountKind(trace, "Sample") <= m
       /\ CountKind(trace, "InferredToken") <= m
       /\ pc = "inf_gen" => n_past - frame.prompt_tokens <= m
       /\ Returned("infer") => n_past - ret.prompt_tokens <= m

\* C18 witness: infer with m = 1 sampled one token that is no complete text
C18_Witness ==
    /\ Returned("infer") /\ call.arg[3] = 1
    /\ CountKind(trace, "Sample") = 1
    /\ CountKind(trace, "InferredToken") = 0
    /\ \E i \in 1..Len(trace) : trace[i].kind = "Sample" /\ trace[i].data = <<TokB>>

RECURSIVE Evaluated(_)
\* the tokens of the evaluated chunks of a trace, in order
Evaluated(tr) ==
    IF tr = <<>> THEN <<>>
    ELSE (IF Head(tr).kind = "Evaluate" THEN Head(tr).data ELSE <<>>) \o Evaluated(Tail(tr))

RECURSIVE Bytes(_)
\* the raw bytes of a sequence of tokens
Bytes(ids) == IF ids = <<>> THEN <<>> ELSE Token(Head(ids)) \o Bytes(Tail(ids))

\* C19: in feed_prompt every token of an evaluated chunk has its id and its
\* decoded bytes appended to the histories, also the token whose callback
\* invocation returned Halt.
C19_HistoryAppendedUnconditionally ==
    (Returned("feed_prompt") /\ before.on) =>
       /\ tokens = before.tokens \o Evaluated(trace)
       /\ decoded_tokens = before.decoded_tokens \o Bytes(Evaluated(trace))

RECURSIVE LeadingBots(_)
\* the beginning-of-text markers a chunk starts with: they pass without callback
LeadingBots(batch) ==
    IF batch # <<>> /\ Head(batch) = BOT THEN <<BOT>> \o LeadingBots(Tail(batch)) ELSE <<>>

\* the chunk from its first token that goes to the callback
DropBots(batch) == SubSeq(batch, Len(LeadingBots(batch)) + 1, Len(batch))

RECURSIVE DeliveredInOrder(_, _, _)
\* from entry i on, with batch left of the chunk at hand: every chunk is passed
\* to the callback token by token, from its first token up to a Halt or its end
DeliveredInOrder(tr, i, batch) ==
    IF i > Len(tr) THEN DropBots(batch) = <<>>
    ELSE IF tr[i].kind = "Evaluate"
    THEN DropBots(batch) = <<>> /\ DeliveredInOrder(tr, i + 1, tr[i].data)
    ELSE LET rest == DropBots(batch) IN
         /\ rest # <<>>
         /\ tr[i].data = Token(Head(rest))
         /\ DeliveredInOrder(tr, i + 1, IF tr[i].fb = "Halt" THEN <<>> ELSE Tail(rest))

RECURSIVE RecordedOf(_, _, _)
\* from entry i on: the tokens that passed without a Halt
RecordedOf(tr, i, batch) ==
    IF i > Len(tr) THEN LeadingBots(batch)
    ELSE IF tr[i].kind = "Evaluate"
    THEN LeadingBots(batch) \o RecordedOf(tr, i + 1, tr[i].data)
    ELSE LET rest == DropBots(batch) IN
         IF tr[i].fb = "Halt"
         THEN LeadingBots(batch) \o RecordedOf(tr, i + 1, <<>>)
         ELSE LeadingBots(batch) \o <<Head(rest)>> \o RecordedOf(tr, i + 1, Tail(rest))

\* a callback of the trace failed
Erred(tr) == \E i \in 1..Len(tr) : IsCallback(tr[i]) /\ tr[i].fb = "Err"

RECURSIVE Contributions(_)
\* what the tokens of a history contributed to the decoded history: the raw
\* bytes of each token, none for the end-of-text token
Contributions(ids) ==
    IF ids = <<>> THEN <<>>
    ELSE (IF Head(ids) = EOT THEN <<>> ELSE Token(Head(ids))) \o Contributions(Tail(ids))

\* C21: in every state reached by feed_prompt, infer_next_token, infer, rewind
\* and from_snapshot the decoded history is the in-order concatenation of the
\* contributions of the tokens of the token history.
C21_DecodedIsConcatenation ==
    decoded_tokens = Contributions(tokens)

CallbackFails ==
    /\ Len(trace') > Len(trace)
    /\ IsCallback(trace'[Len(trace')]) /\ trace'[Len(trace')].fb = "Err"

\* C23: when the callback returns an error during feed_prompt or during any
\* phase of infer, the operation returns UserCallback at once: no callback and
\* no evaluation follows in that call, and the failing token of a prompt chunk
\* is not recorded in the histories.
C23_CallbackErrorAborts ==
    [][/\ CallbackFails =>
            /\ pc' = "idle" /\ result' = "UserCallback"
            /\ pc = "fp_token" => UNCHANGED <<tokens, decoded_tokens>>
       /\ (pc # "idle" /\ Erred(trace)) => FALSE]_vars

\* C23 witness: the callback failed on the second token of a prompt fed by infer
C23_Witness ==
    /\ pc = "idle" /\ call.op = "infer" /\ result = "UserCallback"
    /\ CountKind(trace, "PromptToken") = 2
    /\ trace[Len(trace)].kind = "PromptToken" /\ trace[Len(trace)].fb = "Err"
    /\ Len(tokens) = 1

\* C24: a successful rewind changes only the token history, the decoded history
\* and n_past: the K and V cache bytes, last_logits, mem_per_token and the
\* config stay as they are.
C24_RewindFrame ==
    [][(IsCall("rewind") /\ result' = "Ok") =>
         UNCHANGED <<memory_k, memory_v, last_logits, mem_per_token, config>>]_vars

\* C24 witness: a rewind removed a token whose evaluation is still in the cache
\* and in the logits
C24_Witness ==
    /\ Returned("rewind") /\ ret # <<>>
    /\ n_past = 1
    /\ memory_k[TypeSize(config.memory_k_type) + 1] = ret[1]
    /\ last_logits[ret[1]] = 2

\* the phase of infer a callback event belongs to
Phase(kind) ==
    CASE kind = "SnapshotToken" -> 1
      [] kind = "PromptToken" -> 2
      [] kind = "InferredToken" -> 3
      [] OTHER -> 0

\* the callback events of the trace are ordered by phase
PhaseOrdered(tr) ==
    \A i, j \in 1..Len(tr) :
       (i < j /\ IsCallback(tr[i]) /\ IsCallback(tr[j])) => Phase(tr[i].kind) <= Phase(tr[j].kind)

RECURSIVE TextsOf(_, _)
\* the concatenated texts of the events of the given kind
TextsOf(tr, kind) ==
    IF tr = <<>> THEN <<>>
    ELSE (IF Head(tr).kind = kind THEN Head(tr).data ELSE <<>>) \o TextsOf(Tail(tr), kind)

\* C25: within one infer call every SnapshotToken event precedes every
\* PromptToken event, which precedes every InferredToken event; SnapshotToken
\* events occur only with play_back_previous_tokens, follow the stored token
\* order, and the playback changes no session state; PromptToken events occur
\* only with a non-empty prompt.
C25_EventsOrderedByPhase ==
    [][/\ call'.op = "infer" =>
            /\ PhaseOrdered(trace')
            /\ CountKind(trace', "SnapshotToken") > 0 => call'.arg[1]
            /\ CountKind(trace', "PromptToken") > 0 => call'.arg[2] # 0
       /\ pc = "inf_playback" =>
            /\ UNCHANGED sessionVars
            /\ StartsWith(Bytes(tokens), TextsOf(trace', "SnapshotToken"))]_vars

\* C25 witness: infer played back a stored token and then fed a prompt
C25_Witness ==
    /\ pc = "idle" /\ call.op = "infer"
    /\ CountKind(trace, "SnapshotToken") >= 1
    /\ CountKind(trace, "PromptToken") >= 1

\* how often the token occurs in the sequence
Occurrences(ids, tk) == Cardinality({i \in 1..Len(ids) : ids[i] = tk})

\* C26: in feed_prompt the beginning-of-text token is never passed to the
\* callback, but its id and bytes are still appended to the histories and it
\* is evaluated and counted in n_past.
C26_BotRecordedNotReported ==
    (Returned("feed_prompt") /\ before.on) =>
       /\ \A i \in 1..Len(trace) : IsCallback(trace[i]) => trace[i].data # Token(BOT)
       /\ n_past = before.n_past + Len(Evaluated(trace))
       /\ Occurrences(tokens, BOT)
             = Occurrences(before.tokens, BOT) + Occurrences(Evaluated(trace), BOT)
       /\ Len(decoded_tokens) >= Len(before.decoded_tokens)
             + Occurrences(Evaluated(trace), BOT) * Len(Token(BOT))

\* C27: perplexity advances n_past by context_size for every complete chunk,
\* with no context check, and leaves the token history and the decoded history
\* unchanged; with a prompt shorter than context_size it evaluates nothing and
\* changes no state.
C27_PerplexityAdvancesNPast ==
    [][IsCall("perplexity") =>
         LET n == call'.arg[1] IN
         /\ result' = "Ok"
         /\ n_past' = n_past + (n \div ContextSize) * ContextSize
         /\ UNCHANGED <<tokens, decoded_tokens>>
         /\ n < ContextSize =>
               (UNCHANGED sessionVars /\ CountKind(trace', "Evaluate") = 0)]_vars

\* C27 witness: perplexity scored a chunk on a session that held a token and
\* left n_past beyond the context window
C27_Witness ==
    /\ Returned("perplexity") /\ call.arg[1] >= ContextSize
    /\ tokens # <<>>
    /\ n_past = Len(tokens) + ContextSize

IterationsLeft(past) == IF past + 1 >= ContextSize THEN 0 ELSE ContextSize - 1 - past

\* C29: every infer call terminates: whatever maximum_token_count, sampler and
\* callback, the generation loop samples at most context_size - 1 - n_past
\* tokens (n_past as the loop starts), every round that does not return uses
\* up one of them, and with the window full the round returns.
C29_InferTerminates ==
    [][pc = "inf_gen" =>
         /\ CountKind(trace', "Sample") <= IterationsLeft(frame.prompt_tokens)
         /\ pc' = "inf_gen" => CountKind(trace', "Sample") = CountKind(trace, "Sample") + 1
         /\ n_past + 1 >= ContextSize => pc' = "idle"]_vars

\* C29 witness: infer without a maximum, end-of-text or Halt ran the window full
C29_Witness ==
    /\ pc = "idle" /\ call.op = "infer" /\ call.arg[3] = UsizeMax
    /\ result = "ContextFull"
    /\ AllContinue(trace) /\ ~Erred(trace)
    /\ CountKind(trace, "Sample") = ContextSize - 1

\* C30: conversation_inference_callback loses and duplicates no text: as long
\* as it never returned Halt, the texts delivered to the wrapped callback
\* followed by the pending buffer are the concatenation of all increments; the
\* pending buffer is always a prefix of the stop sequence, and after a Halt for
\* an increment it is empty.
C30_NoTextLost ==
    LET k == Len(conv_in) IN
    /\ (\A j \in 1..k : conv_fb[j] # "Halt") =>
          Concat(conv_out) \o stop_sequence_buf = Concat(InferredTexts(k))
    /\ StartsWith(stop_sequence, stop_sequence_buf)
    /\ (k >= 1 /\ conv_in[k].kind = "InferredToken" /\ conv_fb[k] = "Halt") =>
          stop_sequence_buf = <<>>

\* C30 witness: a buffered prefix of the stop sequence was delivered together
\* with the increment that broke the match
C30_Witness ==
    /\ stop_sequence = <<"E", "N", "D">>
    /\ conv_in = << [kind |-> "InferredToken", text |-> <<"E">>],
                    [kind |-> "InferredToken", text |-> <<"!">>] >>
    /\ conv_out = << <<"E", "!">> >>
    /\ stop_sequence_buf = <<>>

====
